---- MODULE Spec2Model ----
(***************************************************************************)
(* Model of the NBA data-retrieval code: the fixture line parser of        *)
(* src/data-retrieval/fixture_set.py (FixtureSet), the fixtures endpoint   *)
(* of src/data-retrieval/app.py (Fixtures.get), the season totals of       *)
(* season_statistics.py (SeasonStatistics) and the advanced statistics     *)
(* calculator of src/team_advanced_statistics.py (TeamAdvancedStatistics). *)
(*                                                                         *)
(* A raw text line is a sequence of items; an item is either a token (a    *)
(* string without whitespace) or the whitespace item " ".  A Python list   *)
(* is a sequence; Python index i is TLA+ index i + 1 (see At).  A call     *)
(* that may raise returns [err, val]: err = "none" and the value, or the   *)
(* name of the exception.                                                  *)
(***************************************************************************)
EXTENDS Integers, Sequences, FiniteSets, TLC

VARIABLES
    fixtures,       \* FixtureSet.__fixtures: the scraped lines, header first
    headings,       \* FixtureSet.__headings
    dataframe,      \* FixtureSet.__dataframe: the rows appended so far
    outcome,        \* how the last get_dataframe call ended
    calls,          \* number of get_dataframe calls made
    before,         \* __fixtures and __dataframe as the last call found them
    rawLine,        \* the line handed to __create_row
    built,          \* the fields a synthesised line was built from
    fixture_items,  \* the filtered token list handed to __format_fixtures
    rowResult,      \* what __create_row returned or raised
    headerLine,     \* the header line handed to __create_headings
    headResult,     \* what __create_headings returned or raised
    team_statistics,     \* TeamAdvancedStatistics: the team's season totals
    opponent_statistics, \* the opponents' season totals
    advanced_statistics_dataframe,  \* the rows appended so far
    advOutcome,     \* how the last get_advanced_statistics_dataframe ended
    advCalls,       \* number of get_advanced_statistics_dataframe calls
    metricResults,  \* what each calculator method returned or raised
    tieUp,          \* whether float error takes a decimal tie upwards
    request,        \* Fixtures.get: the parsed arguments month and year
    page,           \* the lines the schedule page holds for the request
    response,       \* what Fixtures.get answered
    constructed,    \* the FixtureSet constructions made, with their arguments
    parsed,         \* the __create_row calls made on one FixtureSet, in order
    statistics,     \* SeasonStatistics.__statistics: the scraped lines
    seasonResult,   \* the totals __init__ extracted, or what it raised
    construction,   \* one constructor run: its scraper, browser and position
    requests        \* the extraction requests in progress, each with its own
                    \* FixtureSet

fixtureVars == <<fixtures, headings, dataframe, outcome, calls, before>>
rowVars == <<rawLine, built, fixture_items, rowResult>>
headVars == <<headerLine, headResult>>
statVars == <<team_statistics, opponent_statistics,
              advanced_statistics_dataframe, advOutcome, advCalls,
              metricResults, tieUp>>
apiVars == <<request, page, response, constructed>>
parseVars == <<parsed>>
seasonVars == <<statistics, seasonResult>>
scrapeVars == <<construction>>
requestVars == <<requests>>

----------------------------------------------------------------------------
(* Bounds of the model *)

MaxLines == 3       \* data lines after the header in a scraped table
MaxCalls == 2       \* get_dataframe calls on one FixtureSet
MaxTokens == 18     \* longest filtered token list of a pattern line
MaxStat == 2        \* largest value of a varied season total
MaxAdvCalls == 2    \* get_advanced_statistics_dataframe calls on one object

----------------------------------------------------------------------------
(* Python values *)

Ok(v) == [err |-> "none", val |-> v]
Raise(e) == [err |-> e, val |-> <<>>]

\* list[i] with Python's zero-based index
At(list, i) == list[i + 1]

\* str.split(): the tokens of a line, whitespace dropped
Split(line) == SelectSeq(line, LAMBDA item : item # " ")

\* " ".join(tokens): how the source page spells a row
RECURSIVE Join(_)
Join(tokens) ==
    IF Len(tokens) <= 1 THEN tokens
    ELSE <<Head(tokens), " ">> \o Join(Tail(tokens))

\* tokens of the model's alphabet whose first four characters are "Date"
DatePrefixed == {"Date", "Dated"}

\* row[0:4] == "Date"
StartsWithDate(row) == row # <<>> /\ row[1] \in DatePrefixed

----------------------------------------------------------------------------
(* FixtureSet.__create_headings *)

UnnecessaryHeadings == {"(ET)", "Notes", "Arena"}

RemoveUnnecessaryHeadings(hs) ==
    SelectSeq(hs, LAMBDA heading : heading \notin UnnecessaryHeadings)

\* faulty variant of RenameAt: the two points columns are named the wrong
\* way round
RenameAtSwapped(i, heading) ==
    CASE i = 1 /\ heading = "Start" -> "Tip-Off Time"
      [] i = 2 /\ heading = "Visitor/Neutral" -> "Away Team"
      [] i = 3 /\ heading = "PTS" -> "Home PTS"
      [] i = 4 /\ heading = "Home/Neutral" -> "Home Team"
      [] i = 5 /\ heading = "PTS" -> "Away PTS"
      [] i = 6 /\ heading = "Attend." -> "Attendance"
      [] OTHER -> heading

\* lines 94-110: the six conditional renames, by Python index
RenameAt(i, heading) ==
    CASE i = 1 /\ heading = "Start" -> "Tip-Off Time"
      [] i = 2 /\ heading = "Visitor/Neutral" -> "Away Team"
      [] i = 3 /\ heading = "PTS" -> "Away PTS"
      [] i = 4 /\ heading = "Home/Neutral" -> "Home Team"
      [] i = 5 /\ heading = "PTS" -> "Home PTS"
      [] i = 6 /\ heading = "Attend." -> "Attendance"
      [] OTHER -> heading

ReviseHeadingNames(hs) ==
    IF Len(hs) < 7 THEN Raise("IndexError")
    ELSE Ok([k \in 1..Len(hs) |-> RenameAt(k - 1, hs[k])])

CreateHeadings(lines) ==
    IF lines = <<>> THEN Raise("IndexError")
    ELSE ReviseHeadingNames(RemoveUnnecessaryHeadings(Split(lines[1])))

----------------------------------------------------------------------------
(* FixtureSet.__create_row and __format_fixtures *)

NoiseTokens == {"OT", "2OT", "3OT", "4OT", "(IV)", "Box", "Score"}

three_names == {"Los", "Golden", "New", "Oklahoma", "Portland", "San"}

last_words == {"Clippers", "Lakers", "Warriors", "Pelicans", "Knicks",
               "Thunder", "Blazers", "Spurs"}

\* faulty variant of FilterRow: only the overtime markers are dropped
FilterRowOvertimeOnly(split_row) ==
    SelectSeq(split_row,
              LAMBDA value : value \notin {"OT", "2OT", "3OT", "4OT"})

\* lines 126-136: the list comprehension keeps the values that equal none
\* of the seven noise tokens
FilterRow(split_row) ==
    SelectSeq(split_row, LAMBDA value : value \notin NoiseTokens)

Two(it, i) == At(it, i) \o " " \o At(it, i + 1)
Three(it, i) == At(it, i) \o " " \o At(it, i + 1) \o " " \o At(it, i + 2)

\* faulty variant of Assign: a branch leaves the attendance as first read
AssignAttendanceKept(d, away, apts, home, hpts, att) ==
    [d EXCEPT !["Away Team"] = away, !["Away PTS"] = apts,
              !["Home Team"] = home, !["Home PTS"] = hpts]

\* the assignments of one branch to the five layout-dependent keys
Assign(d, away, apts, home, hpts, att) ==
    [d EXCEPT !["Away Team"] = away, !["Away PTS"] = apts,
              !["Home Team"] = home, !["Home PTS"] = hpts,
              !["Attendance"] = att]

\* faulty variant of DefaultLayout: the attendance is read one token early
DefaultLayoutEarly(it) ==
    ("Date" :> Three(it, 1)) @@ ("Tip-Off Time" :> At(it, 4)) @@
    ("Away Team" :> Two(it, 5)) @@ ("Away PTS" :> At(it, 7)) @@
    ("Home Team" :> Two(it, 8)) @@ ("Home PTS" :> At(it, 10)) @@
    ("Attendance" :> At(it, 10))

\* lines 154-162: the dictionary as first built
DefaultLayout(it) ==
    ("Date" :> Three(it, 1)) @@ ("Tip-Off Time" :> At(it, 4)) @@
    ("Away Team" :> Two(it, 5)) @@ ("Away PTS" :> At(it, 7)) @@
    ("Home Team" :> Two(it, 8)) @@ ("Home PTS" :> At(it, 10)) @@
    ("Attendance" :> At(it, 11))

\* faulty variant of NoAttendanceRule: the attendance is read from the line
NoAttendanceRead(d, it) ==
    IF Len(it) = 14 /\ At(it, 7) \in last_words
    THEN Assign(d, Three(it, 5), At(it, 8), Two(it, 9), At(it, 11), At(it, 12))
    ELSE d

\* lines 164-171: 14 tokens, three-word away name, no attendance
NoAttendanceRule(d, it) ==
    IF Len(it) = 14 /\ At(it, 7) \in last_words
    THEN Assign(d, Three(it, 5), At(it, 8), Two(it, 9), At(it, 11), "0")
    ELSE d

\* faulty variant of BothConfirmedRule: the home points are read one token
\* late
BothConfirmedLate(d, it) ==
    IF Len(it) = 14 /\ At(it, 7) \in last_words /\ At(it, 11) \in last_words
    THEN Assign(d, Three(it, 5), At(it, 8), Three(it, 9), At(it, 13), At(it, 13))
    ELSE d

\* lines 173-186: 14 tokens, both names confirmed three-word
BothConfirmedRule(d, it) ==
    IF Len(it) = 14 /\ At(it, 7) \in last_words /\ At(it, 11) \in last_words
    THEN Assign(d, Three(it, 5), At(it, 8), Three(it, 9), At(it, 12), At(it, 13))
    ELSE d

\* faulty variant of CountChain: the 17-token layout is given only when
\* index 5 holds a starter word
CountChainAllTested(d, it) ==
    IF Len(it) = 17 /\ At(it, 5) \in three_names
    THEN Assign(d, Three(it, 5), At(it, 8), Three(it, 9), At(it, 12), At(it, 13))
    ELSE IF Len(it) = 16 /\ At(it, 5) \in three_names
    THEN IF At(it, 9) \in three_names
         THEN Assign(d, Three(it, 5), At(it, 8), Three(it, 9), At(it, 12), At(it, 13))
         ELSE Assign(d, Three(it, 5), At(it, 8), Two(it, 9), At(it, 11), At(it, 12))
    ELSE IF Len(it) = 16 /\ At(it, 5) \notin three_names
    THEN Assign(d, Two(it, 5), At(it, 7), Three(it, 8), At(it, 11), At(it, 12))
    ELSE IF Len(it) = 15 /\ At(it, 5) \in three_names
    THEN Assign(d, Three(it, 5), At(it, 8), Two(it, 9), At(it, 11), At(it, 12))
    ELSE IF Len(it) = 15 /\ At(it, 5) \notin three_names
    THEN IF At(it, 8) \in three_names
         THEN Assign(d, Two(it, 5), At(it, 7), Three(it, 8), At(it, 11), At(it, 12))
         ELSE Assign(d, Two(it, 5), At(it, 7), Two(it, 8), At(it, 10), At(it, 11))
    ELSE d

\* lines 188-249: the if / elif chain on the token count
CountChain(d, it) ==
    IF Len(it) = 17
    THEN Assign(d, Three(it, 5), At(it, 8), Three(it, 9), At(it, 12), At(it, 13))
    ELSE IF Len(it) = 16 /\ At(it, 5) \in three_names
    THEN IF At(it, 9) \in three_names
         THEN Assign(d, Three(it, 5), At(it, 8), Three(it, 9), At(it, 12), At(it, 13))
         ELSE Assign(d, Three(it, 5), At(it, 8), Two(it, 9), At(it, 11), At(it, 12))
    ELSE IF Len(it) = 16 /\ At(it, 5) \notin three_names
    THEN Assign(d, Two(it, 5), At(it, 7), Three(it, 8), At(it, 11), At(it, 12))
    ELSE IF Len(it) = 15 /\ At(it, 5) \in three_names
    THEN Assign(d, Three(it, 5), At(it, 8), Two(it, 9), At(it, 11), At(it, 12))
    ELSE IF Len(it) = 15 /\ At(it, 5) \notin three_names
    THEN IF At(it, 8) \in three_names
         THEN Assign(d, Two(it, 5), At(it, 7), Three(it, 8), At(it, 11), At(it, 12))
         ELSE Assign(d, Two(it, 5), At(it, 7), Two(it, 8), At(it, 10), At(it, 11))
    ELSE d

\* the first dictionary reads indices 1..11: a shorter list raises IndexError
FormatFixtures(it) ==
    IF Len(it) < 12 THEN Raise("IndexError")
    ELSE Ok(CountChain(BothConfirmedRule(NoAttendanceRule(DefaultLayout(it), it), it), it))

\* faulty variant of CreateRow: the record carries a count of the calls made
\* before it
CreateRowCounting(fixture) ==
    LET made == FormatFixtures(FilterRow(Split(fixture)))
    IN  IF made.err # "none" THEN made
        ELSE Ok([made.val EXCEPT !["Attendance"] = ToString(Len(parsed))])

\* lines 124-138: split, drop the noise tokens, lay the fields out
CreateRow(fixture) == FormatFixtures(FilterRow(Split(fixture)))

----------------------------------------------------------------------------
(* Input lines for the line parser *)

LinePrefix == <<"Tue", "Oct", "24", "2023", "7:30p">>

ThreeWordNames == {<<"Los", "Angeles", "Lakers">>,
                   <<"Golden", "State", "Warriors">>,
                   <<"Portland", "Trail", "Blazers">>}
TwoWordNames == {<<"Boston", "Celtics">>, <<"Utah", "Jazz">>}
TeamNames == ThreeWordNames \cup TwoWordNames

NoiseRuns == {<<>>, <<"OT">>, <<"Box", "Score">>, <<"2OT", "Box", "Score">>}

Venues == {<<"FedExForum">>, <<"Ball", "Arena">>,
           <<"Madison", "Square", "Garden">>}

SynthParams ==
    [away : TeamNames, home : TeamNames, noise : NoiseRuns, venue : Venues]

NameString(name) ==
    IF Len(name) = 2 THEN Two(name, 0) ELSE Three(name, 0)

\* weekday, date, time, away name, points, home name, points, noise,
\* attendance, venue
SynthTokens(p) ==
    LinePrefix \o p.away \o <<"107">> \o p.home \o <<"119">> \o p.noise
        \o <<"19842">> \o p.venue

BuiltOf(p) ==
    [kind |-> "synth", away |-> NameString(p.away), apts |-> "107",
     home |-> NameString(p.home), hpts |-> "119", att |-> "19842"]

NoBuilt ==
    [kind |-> "pattern", away |-> "", apts |-> "", home |-> "", hpts |-> "",
     att |-> ""]

\* pattern lines: a different token at every index, except that the indices
\* __format_fixtures tests may hold a starter or a confirmer word
PatternPositions == {5, 7, 8, 9, 11}
PatternWords == {"", "Los", "Lakers"}

GenericToken(i) ==
    IF i < Len(LinePrefix) THEN At(LinePrefix, i) ELSE "w" \o ToString(i)

PatternTokens(n, ov) ==
    [k \in 1..n |->
        IF (k - 1) \in PatternPositions /\ ov[k - 1] # ""
        THEN ov[k - 1] ELSE GenericToken(k - 1)]

\* tokens that resemble a noise token without being one
Lookalikes == {"ot", "5OT", "Boxes", "(iv)"}

\* no index of a pattern line holds a starter or a confirmer word
NoOverride == [i \in PatternPositions |-> ""]

\* the list with x put in after its first pos elements
InsertAt(list, pos, x) ==
    SubSeq(list, 1, pos) \o <<x>> \o SubSeq(list, pos + 1, Len(list))

\* a pattern line with one noise token or lookalike put in at any index,
\* once or twice
NoisyTokens ==
    { LET once == InsertAt(PatternTokens(n, NoOverride), pos, word)
      IN  IF twice THEN InsertAt(once, 0, word) ELSE once :
        n \in {13, 14}, pos \in 0..13, word \in NoiseTokens \cup Lookalikes,
        twice \in BOOLEAN }

RowInputs ==
    {[line |-> Join(SynthTokens(p)), built |-> BuiltOf(p)] : p \in SynthParams}
    \cup
    {[line |-> Join(PatternTokens(n, ov)), built |-> NoBuilt] :
        n \in 0..MaxTokens, ov \in [PatternPositions -> PatternWords]}
    \cup
    {[line |-> Join(tokens), built |-> NoBuilt] : tokens \in NoisyTokens}

----------------------------------------------------------------------------
(* The line parser applied to one line *)

Pending == [err |-> "pending", val |-> <<>>]

IdleFixture ==
    /\ fixtures = <<>> /\ headings = <<>> /\ dataframe = <<>>
    /\ outcome = "none" /\ calls = 0
    /\ before = [fixtures |-> <<>>, dataframe |-> <<>>]

IdleRow ==
    /\ rawLine = <<>> /\ built = NoBuilt /\ fixture_items = <<>>
    /\ rowResult = Pending

IdleHead == headerLine = <<>> /\ headResult = Pending

NoTotals ==
    [G |-> 0, MP |-> 0, FG |-> 0, FGA |-> 0, P3 |-> 0, FT |-> 0, FTA |-> 0,
     ORB |-> 0, DRB |-> 0, TRB |-> 0, AST |-> 0, STL |-> 0, BLK |-> 0,
     TOV |-> 0, PF |-> 0, PTS |-> 0]

IdleStats ==
    /\ team_statistics = NoTotals /\ opponent_statistics = NoTotals
    /\ advanced_statistics_dataframe = <<>> /\ advOutcome = "none"
    /\ advCalls = 0 /\ metricResults = <<>> /\ tieUp = FALSE

NoRequest == [month |-> "", year |-> 0]

NoResponse == [status |-> 0, body |-> [message |-> ""]]

IdleApi ==
    /\ request = NoRequest /\ page = <<>> /\ response = NoResponse
    /\ constructed = <<>>

IdleParse == parsed = <<>>

IdleSeason == statistics = <<>> /\ seasonResult = Pending

\* the components that only the endpoint, the repeated parse and the season
\* totals use
IdleScrape == construction = <<>>

IdleRequests == requests = <<>>

IdleOthers ==
    IdleApi /\ IdleParse /\ IdleSeason /\ IdleScrape /\ IdleRequests

otherVars == <<apiVars, parseVars, seasonVars, scrapeVars, requestVars>>

InitRow ==
    /\ \E input \in RowInputs : rawLine = input.line /\ built = input.built
    /\ fixture_items = <<>>
    /\ rowResult = Pending
    /\ IdleFixture /\ IdleHead /\ IdleStats /\ IdleOthers

\* __create_row(rawLine)
CreateRowStep ==
    /\ rowResult = Pending
    /\ fixture_items' = FilterRow(Split(rawLine))
    /\ rowResult' = CreateRow(rawLine)
    /\ UNCHANGED <<rawLine, built, fixtureVars, headVars, statVars, otherVars>>

vars == <<fixtureVars, rowVars, headVars, statVars, apiVars, parseVars,
          seasonVars, scrapeVars, requestVars>>

NextRow == CreateRowStep

SpecRow == InitRow /\ [][NextRow]_vars

RowDone == rowResult # Pending

----------------------------------------------------------------------------
(* FixtureSet: construction and get_dataframe *)

StandardHeader ==
    Join(<<"Date", "Start", "(ET)", "Visitor/Neutral", "PTS", "Home/Neutral",
           "PTS", "Attend.", "Arena", "Notes">>)

LogHeader ==
    Join(<<"Date", "Start", "(ET)", "Visitor/Neutral", "PTS", "Home/Neutral",
           "PTS", "Attend.", "LOG", "Arena", "Notes">>)

HeaderPool == {StandardHeader, LogHeader}

\* lines a scraped table may hold after its header
LinePool ==
    { Join(SynthTokens([away |-> <<"Boston", "Celtics">>,
                        home |-> <<"Utah", "Jazz">>,
                        noise |-> <<"Box", "Score">>,
                        venue |-> <<"Ball", "Arena">>])),
      Join(SynthTokens([away |-> <<"Los", "Angeles", "Lakers">>,
                        home |-> <<"Utah", "Jazz">>,
                        noise |-> <<"OT", "Box", "Score">>,
                        venue |-> <<"Ball", "Arena">>])),
      Join(<<"Dated">> \o Tail(PatternTokens(13, NoOverride))),
      Join(PatternTokens(12, NoOverride)),
      Join(PatternTokens(11, NoOverride)),
      <<"Playoffs">>,
      StandardHeader }

RECURSIVE SeqsUpTo(_, _)
SeqsUpTo(S, n) ==
    IF n = 0 THEN {<<>>}
    ELSE LET shorter == SeqsUpTo(S, n - 1)
         IN  shorter \cup {Append(q, x) : q \in shorter, x \in S}

\* faulty variant of AppendRows: a row that cannot be parsed is skipped
RECURSIVE AppendRowsSkipBad(_, _)
AppendRowsSkipBad(data, df) ==
    IF data = <<>> THEN [err |-> "none", df |-> df]
    ELSE IF StartsWithDate(Head(data)) THEN AppendRowsSkipBad(Tail(data), df)
    ELSE LET made == CreateRow(Head(data))
         IN  IF made.err # "none" THEN AppendRowsSkipBad(Tail(data), df)
             ELSE AppendRowsSkipBad(Tail(data), Append(df, made.val))

\* faulty variant of AppendRows: each row is put in front of the others
RECURSIVE AppendRowsInFront(_, _)
AppendRowsInFront(data, df) ==
    IF data = <<>> THEN [err |-> "none", df |-> df]
    ELSE IF StartsWithDate(Head(data)) THEN AppendRowsInFront(Tail(data), df)
    ELSE LET made == CreateRow(Head(data))
         IN  IF made.err # "none" THEN [err |-> made.err, df |-> df]
             ELSE AppendRowsInFront(Tail(data), <<made.val>> \o df)

\* lines 261-263: the loop of __populate_dataframe; an exception of
\* __create_row ends it with the rows appended so far
RECURSIVE AppendRows(_, _)
AppendRows(data, df) ==
    IF data = <<>> THEN [err |-> "none", df |-> df]
    ELSE IF StartsWithDate(Head(data)) THEN AppendRows(Tail(data), df)
    ELSE LET made == CreateRow(Head(data))
         IN  IF made.err # "none" THEN [err |-> made.err, df |-> df]
             ELSE AppendRows(Tail(data), Append(df, made.val))

\* lines 258-263: data is __fixtures itself, so pop(0) shortens __fixtures
PopulateDataframe(lines, df) ==
    IF lines = <<>> THEN [err |-> "IndexError", fixtures |-> lines, df |-> df]
    ELSE LET looped == AppendRows(Tail(lines), df)
         IN  [err |-> looped.err, fixtures |-> Tail(lines), df |-> looped.df]

\* the state __init__ leaves: the scraped lines, the headings of the first
\* line (a header that yields fewer than seven headings ends __init__ with
\* an exception and no object), an empty dataframe
Init ==
    /\ \E header \in HeaderPool, body \in SeqsUpTo(LinePool, MaxLines) :
          fixtures = <<header>> \o body
    /\ CreateHeadings(fixtures).err = "none"
    /\ headings = CreateHeadings(fixtures).val
    /\ dataframe = <<>>
    /\ outcome = "none"
    /\ calls = 0
    /\ before = [fixtures |-> <<>>, dataframe |-> <<>>]
    /\ IdleRow /\ IdleHead /\ IdleStats /\ IdleOthers

GetDataframe ==
    /\ calls < MaxCalls
    /\ LET done == PopulateDataframe(fixtures, dataframe)
       IN  /\ fixtures' = done.fixtures
           /\ dataframe' = done.df
           /\ outcome' = IF done.err = "none" THEN "returned" ELSE done.err
    /\ calls' = calls + 1
    /\ before' = [fixtures |-> fixtures, dataframe |-> dataframe]
    /\ UNCHANGED <<headings, rowVars, headVars, statVars, otherVars>>

Next == GetDataframe

Spec == Init /\ [][Next]_vars

----------------------------------------------------------------------------
(* The heading normaliser applied to one header line *)

SourceHeadings ==
    <<"Date", "Start", "Visitor/Neutral", "PTS", "Home/Neutral", "PTS", "Attend.">>

HeaderTails ==
    {<<>>, <<"LOG">>, <<"Arena", "Notes">>, <<"LOG", "Arena", "Notes">>}

\* header lines: the source headings, cut to n tokens, with the first token
\* or one other token possibly different, one noise heading possibly
\* inserted, and a tail of further columns
HeaderInputs ==
    { Join(LET cut == SubSeq(SourceHeadings, 1, n)
               named == [k \in 1..n |->
                            IF k = 1 THEN first
                            ELSE IF k = other + 1 THEN "Other" ELSE cut[k]]
               noisy == IF noise = "" \/ pos > n THEN named
                        ELSE InsertAt(named, pos, noise)
           IN  noisy \o tail) :
        n \in {0, 6, 7}, first \in {"Date", "Day"}, other \in 0..6,
        noise \in UnnecessaryHeadings \cup {""}, pos \in 0..7,
        tail \in HeaderTails }

InitHead ==
    /\ headerLine \in HeaderInputs
    /\ headResult = Pending
    /\ IdleFixture /\ IdleRow /\ IdleStats /\ IdleOthers

\* __create_headings() on a table whose first line is headerLine
CreateHeadingsStep ==
    /\ headResult = Pending
    /\ headResult' = CreateHeadings(<<headerLine>>)
    /\ UNCHANGED <<headerLine, fixtureVars, rowVars, statVars, otherVars>>

NextHead == CreateHeadingsStep

SpecHead == InitHead /\ [][NextHead]_vars

----------------------------------------------------------------------------
(* TeamAdvancedStatistics: the calculator                                  *)
(*                                                                         *)
(* Season totals are numbers read with float(); the model takes them from  *)
(* the non-negative integers.  A published metric is round(x, 3) and is    *)
(* held as the integer 1000 * round(x, 3); x is computed exactly, as the   *)
(* quotient of two integers, and rounded to the nearest thousandth.  Where *)
(* x lies exactly between two thousandths, round() goes by the binary      *)
(* float that the computation produced, which lies just below or just      *)
(* above x: tieUp is that direction.  Python's / raises ZeroDivisionError  *)
(* on a float zero.                                                        *)
(***************************************************************************)

AdvancedHeadings ==
    <<"PPG", "PAPG", "ORtg", "DRtg", "NRtg", "ASTpG", "AST%", "AST/TOV",
      "DRBpG", "ORBpG", "TRBpG", "DRB%", "ORB%", "TRB%", "TOV%", "EFG%",
      "TSA", "TS%", "Pace", "TIE">>

\* the integer nearest to n / d (d # 0), a tie going the way of tieUp
RoundDiv(n, d) ==
    LET nn == IF d < 0 THEN -n ELSE n
        dd == IF d < 0 THEN -d ELSE d
        f == nn \div dd
        r == nn - f * dd
    IN  IF 2 * r < dd THEN f
        ELSE IF 2 * r > dd THEN f + 1
        ELSE IF tieUp THEN f + 1 ELSE f

\* faulty variant of Rounded: a zero denominator gives 0 instead of an error
RoundedOrZero(n, d) ==
    IF d = 0 THEN Ok(0) ELSE Ok(RoundDiv(n, d))

\* round(n / d, 3) in thousandths, n already scaled by 1000
Rounded(n, d) ==
    IF d = 0 THEN Raise("ZeroDivisionError") ELSE Ok(RoundDiv(n, d))

PerGame(statistic) == Rounded(1000 * statistic, team_statistics.G)

\* ORB + opponent DRB and opponent ORB + DRB, the two rebound denominators
TeamReboundChances == team_statistics.ORB + opponent_statistics.DRB
OpponentReboundChances == opponent_statistics.ORB + team_statistics.DRB

\* 100 * A * B times FGA + 0.4 * FTA - 1.07 * (ORB / A) * (FGA - FG) + TOV
TeamSide(A, B) ==
    100 * A * B * (team_statistics.FGA + team_statistics.TOV)
    + 40 * A * B * team_statistics.FTA
    - 107 * B * team_statistics.ORB * (team_statistics.FGA - team_statistics.FG)

\* 100 * A * B times the same expression of the opponents' totals over B
OpponentSide(A, B) ==
    100 * A * B * (opponent_statistics.FGA + opponent_statistics.TOV)
    + 40 * A * B * opponent_statistics.FTA
    - 107 * A * opponent_statistics.ORB
          * (opponent_statistics.FGA - opponent_statistics.FG)

\* faulty variant of CalculatePossessions: each side's rebound rate is taken
\* over its own defensive rebounds
PossessionsOwnRebounds ==
    LET A == team_statistics.ORB + team_statistics.DRB
        B == opponent_statistics.ORB + opponent_statistics.DRB
    IN  IF A = 0 \/ B = 0 THEN Raise("ZeroDivisionError")
        ELSE Ok(RoundDiv(5 * (TeamSide(A, B) + OpponentSide(A, B)), A * B))

\* lines 381-421: round(0.5 * (team side + opponent side), 3)
CalculatePossessions ==
    LET A == TeamReboundChances
        B == OpponentReboundChances
    IN  IF A = 0 \/ B = 0 THEN Raise("ZeroDivisionError")
        ELSE Ok(RoundDiv(5 * (TeamSide(A, B) + OpponentSide(A, B)), A * B))

\* faulty variant of CalculateOpponentPossessions: the estimate is made of
\* the opponents' totals alone
PossessionsOpponentSide ==
    LET A == TeamReboundChances
        B == OpponentReboundChances
    IN  IF A = 0 \/ B = 0 THEN Raise("ZeroDivisionError")
        ELSE Ok(RoundDiv(10 * OpponentSide(A, B), A * B))

\* lines 434-474: the same two terms, the opponents' first
CalculateOpponentPossessions ==
    LET A == TeamReboundChances
        B == OpponentReboundChances
    IN  IF A = 0 \/ B = 0 THEN Raise("ZeroDivisionError")
        ELSE Ok(RoundDiv(5 * (OpponentSide(A, B) + TeamSide(A, B)), A * B))

CalculateOffensiveRating ==
    LET possessions == CalculatePossessions
    IN  IF possessions.err # "none" THEN possessions
        ELSE Rounded(team_statistics.PTS * 100000000, possessions.val)

CalculateDefensiveRating ==
    LET opponent_possessions == CalculateOpponentPossessions
    IN  IF opponent_possessions.err # "none" THEN opponent_possessions
        ELSE Rounded(opponent_statistics.PTS * 100000000,
                     opponent_possessions.val)

\* faulty variant of CalculateNetRating: the point difference per 100
\* possessions, rounded once
NetRatingOfDifference ==
    LET possessions == CalculatePossessions
    IN  IF possessions.err # "none" THEN possessions
        ELSE Rounded((team_statistics.PTS - opponent_statistics.PTS) * 100000000,
                     possessions.val)

CalculateNetRating ==
    LET offensive_rating == CalculateOffensiveRating
        defensive_rating == CalculateDefensiveRating
    IN  IF offensive_rating.err # "none" THEN offensive_rating
        ELSE IF defensive_rating.err # "none" THEN defensive_rating
        ELSE Ok(offensive_rating.val - defensive_rating.val)

CalculateAssistRate ==
    Rounded(team_statistics.AST * 100000, team_statistics.FG)

CalculateAssistToTurnoverRatio ==
    Rounded(team_statistics.AST * 1000, team_statistics.TOV)

CalculateDefensiveReboundPercentage ==
    Rounded(team_statistics.DRB * 100000,
            team_statistics.DRB + opponent_statistics.ORB)

CalculateOffensiveReboundPercentage ==
    Rounded(team_statistics.ORB * 100000,
            team_statistics.ORB + opponent_statistics.DRB)

CalculateTotalReboundPercentage ==
    Rounded(team_statistics.TRB * 100000,
            team_statistics.TRB + opponent_statistics.TRB)

\* faulty variant of CalculateTurnoverPercentage: no turnovers is an error
TurnoverPercentageStrict ==
    IF team_statistics.TOV = 0 THEN Raise("ZeroDivisionError")
    ELSE Rounded(team_statistics.TOV * 10000000,
                 100 * team_statistics.FGA + 44 * team_statistics.FTA
                     + 100 * team_statistics.TOV)

\* 100 * TOV / (FGA + 0.44 * FTA + TOV)
CalculateTurnoverPercentage ==
    Rounded(team_statistics.TOV * 10000000,
            100 * team_statistics.FGA + 44 * team_statistics.FTA
                + 100 * team_statistics.TOV)

\* (FG + 0.5 * 3P) / FGA * 100
CalculateEffectiveFieldGoalPercentage ==
    Rounded((2 * team_statistics.FG + team_statistics.P3) * 50000,
            team_statistics.FGA)

\* round(FGA + 0.44 * FTA, 3)
CalculateTrueShootingAttempts ==
    Ok(1000 * team_statistics.FGA + 440 * team_statistics.FTA)

\* PTS / (2 * TSA) * 100, TSA already rounded
CalculateTrueShootingPercentage ==
    LET true_shooting_attempts == CalculateTrueShootingAttempts
    IN  Rounded(team_statistics.PTS * 100000000,
                2 * true_shooting_attempts.val)

\* 48 * ((possessions + opponent possessions) / (2 * (MP / 5)))
CalculatePace ==
    LET possessions == CalculatePossessions
        opponent_possessions == CalculateOpponentPossessions
    IN  IF possessions.err # "none" THEN possessions
        ELSE IF opponent_possessions.err # "none" THEN opponent_possessions
        ELSE Rounded(120 * (possessions.val + opponent_possessions.val),
                     team_statistics.MP)

\* twice PTS + FG + FT - FGA - FTA + DRB + ORB/2 + AST + STL + BLK/2 - PF - TOV
ImpactTerm(t) ==
    2 * (t.PTS + t.FG + t.FT - t.FGA - t.FTA + t.DRB + t.AST + t.STL
         - t.PF - t.TOV)
    + t.ORB + t.BLK

CalculateTeamImpactEstimate ==
    Rounded(ImpactTerm(team_statistics) * 100000,
            ImpactTerm(team_statistics) + ImpactTerm(opponent_statistics))

\* the value of one key of the dictionary of __create_advanced_statistics
Metric(h) ==
    CASE h = "PPG" -> PerGame(team_statistics.PTS)
      [] h = "PAPG" -> PerGame(opponent_statistics.PTS)
      [] h = "ORtg" -> CalculateOffensiveRating
      [] h = "DRtg" -> CalculateDefensiveRating
      [] h = "NRtg" -> CalculateNetRating
      [] h = "ASTpG" -> PerGame(team_statistics.AST)
      [] h = "AST%" -> CalculateAssistRate
      [] h = "AST/TOV" -> CalculateAssistToTurnoverRatio
      [] h = "DRBpG" -> PerGame(team_statistics.DRB)
      [] h = "ORBpG" -> PerGame(team_statistics.ORB)
      [] h = "TRBpG" -> PerGame(team_statistics.TRB)
      [] h = "DRB%" -> CalculateDefensiveReboundPercentage
      [] h = "ORB%" -> CalculateOffensiveReboundPercentage
      [] h = "TRB%" -> CalculateTotalReboundPercentage
      [] h = "TOV%" -> CalculateTurnoverPercentage
      [] h = "EFG%" -> CalculateEffectiveFieldGoalPercentage
      [] h = "TSA" -> CalculateTrueShootingAttempts
      [] h = "TS%" -> CalculateTrueShootingPercentage
      [] h = "Pace" -> CalculatePace
      [] h = "TIE" -> CalculateTeamImpactEstimate

HeadingSet == {AdvancedHeadings[k] : k \in 1..Len(AdvancedHeadings)}

\* the dictionary literal evaluates its values in order; the first
\* exception ends it
CreateAdvancedStatistics ==
    IF \E h \in HeadingSet : Metric(h).err # "none"
    THEN Raise("ZeroDivisionError")
    ELSE Ok([h \in HeadingSet |-> Metric(h).val])

\* lines 547-549: the right-hand side is evaluated before the row is set
PopulateAdvancedDataframe(df) ==
    LET made == CreateAdvancedStatistics
    IN  IF made.err # "none" THEN [err |-> made.err, df |-> df]
        ELSE [err |-> "none", df |-> Append(df, made.val)]

----------------------------------------------------------------------------
(* Season totals the calculator is given *)

TeamBase ==
    [G |-> 2, MP |-> 5, FG |-> 1, FGA |-> 1, P3 |-> 1, FT |-> 0, FTA |-> 1,
     ORB |-> 1, DRB |-> 1, TRB |-> 2, AST |-> 1, STL |-> 1, BLK |-> 1,
     TOV |-> 1, PF |-> 1, PTS |-> 2]

OpponentBase ==
    [G |-> 2, MP |-> 5, FG |-> 0, FGA |-> 1, P3 |-> 0, FT |-> 0, FTA |-> 1,
     ORB |-> 1, DRB |-> 1, TRB |-> 0, AST |-> 1, STL |-> 0, BLK |-> 1,
     TOV |-> 1, PF |-> 1, PTS |-> 1]

\* totals that are zero in one input at a time
Zeroable == {"none", "G", "MP", "FG", "TRB", "AST"}

ZeroOne(t, z) == [f \in DOMAIN t |-> IF f = z THEN 0 ELSE t[f]]

TeamTotals ==
    { ZeroOne([TeamBase EXCEPT !.FGA = fga, !.FTA = fta, !.TOV = tov,
                               !.PTS = pts, !.ORB = orb, !.DRB = drb,
                               !.PF = pf], z) :
        fga \in 0..MaxStat, pts \in 0..MaxStat, fta \in {0, 1},
        tov \in {0, 1}, orb \in {0, 1}, drb \in {0, 1}, pf \in {1, 4},
        z \in Zeroable }

\* the opponents' free throw attempts and turnovers are both 1 or both 0
OpponentTotals ==
    { [OpponentBase EXCEPT !.PTS = pts, !.ORB = orb, !.DRB = drb,
                           !.FTA = spare, !.TOV = spare] :
        pts \in 0..MaxStat, orb \in {0, 1}, drb \in {0, 1},
        spare \in {0, 1} }

InitStats ==
    /\ team_statistics \in TeamTotals
    /\ opponent_statistics \in OpponentTotals
    /\ advanced_statistics_dataframe = <<>>
    /\ advOutcome = "none"
    /\ advCalls = 0
    /\ metricResults = <<>>
    /\ tieUp \in BOOLEAN
    /\ IdleFixture /\ IdleRow /\ IdleHead /\ IdleOthers

GetAdvancedStatisticsDataframe ==
    /\ advCalls < MaxAdvCalls
    /\ LET done == PopulateAdvancedDataframe(advanced_statistics_dataframe)
       IN  /\ advanced_statistics_dataframe' = done.df
           /\ advOutcome' = IF done.err = "none" THEN "returned" ELSE done.err
    /\ advCalls' = advCalls + 1
    /\ UNCHANGED <<team_statistics, opponent_statistics, metricResults,
                   tieUp, fixtureVars, rowVars, headVars, otherVars>>

NextStats == GetAdvancedStatisticsDataframe

SpecStats == InitStats /\ [][NextStats]_vars

\* the methods behind the 20 metrics and the two possession estimates
MethodSet == HeadingSet \cup {"possessions", "opponent_possessions"}

Method(h) ==
    CASE h = "possessions" -> CalculatePossessions
      [] h = "opponent_possessions" -> CalculateOpponentPossessions
      [] OTHER -> Metric(h)

\* each calculator method called on its own
CalculateEach ==
    /\ metricResults = <<>>
    /\ metricResults' = [h \in MethodSet |-> Method(h)]
    /\ UNCHANGED <<team_statistics, opponent_statistics,
                   advanced_statistics_dataframe, advOutcome, advCalls,
                   tieUp, fixtureVars, rowVars, headVars, otherVars>>

NextMetric == CalculateEach

SpecMetric == InitStats /\ [][NextMetric]_vars

----------------------------------------------------------------------------
(* Fixtures.get: the fixtures endpoint of src/data-retrieval/app.py        *)
(*                                                                         *)
(* The request parser has already turned the query into a string month and *)
(* an integer year.  An exception that leaves the handler is answered by   *)
(* the web framework with status 500.                                      *)
(***************************************************************************)

MinYear == 2014
MaxYear == 2023
MaxPageLines == 1   \* data lines after the header of a requested page

accepted_months ==
    {"october", "november", "december", "january", "february", "march",
     "april", "may", "june"}

\* str.lower() on the month spellings of the model
Lower(month) ==
    CASE month = "October" -> "october"
      [] month = "MAY" -> "may"
      [] month = "June" -> "june"
      [] month = "July" -> "july"
      [] month = "SEPTEMBER" -> "september"
      [] OTHER -> month

\* int() on the tokens of the model: the numerals convert, any other token
\* raises ValueError
IntOf(token) ==
    CASE token = "24" -> Ok(24)
      [] token = "107" -> Ok(107)
      [] token = "119" -> Ok(119)
      [] token = "2023" -> Ok(2023)
      [] token = "19842" -> Ok(19842)
      [] OTHER -> Raise("ValueError")

BadRequest(message) == [status |-> 400, body |-> [message |-> message]]
ServerError(e) == [status |-> 500, body |-> [message |-> e]]

\* faulty variant of Validate: the year is checked first
ValidateYearFirst(month, year) ==
    IF year < MinYear \/ year > MaxYear THEN "Invalid year selection."
    ELSE IF month \notin accepted_months THEN "Invalid month selection."
    ELSE ""

\* lines 37-41: the message of the rejection, "" when the request passes
Validate(month, year) ==
    IF month \notin accepted_months THEN "Invalid month selection."
    ELSE IF year < MinYear \/ year > MaxYear THEN "Invalid year selection."
    ELSE ""

\* lines 50-58: one entry of the fixtures list
FixtureEntry(row) ==
    LET awayPoints == IntOf(row["Away PTS"])
        homePoints == IntOf(row["Home PTS"])
    IN  IF awayPoints.err # "none" THEN awayPoints
        ELSE IF homePoints.err # "none" THEN homePoints
        ELSE Ok([date |-> row["Date"], tipOffTime |-> row["Tip-Off Time"],
                 awayTeam |-> row["Away Team"], awayPoints |-> awayPoints.val,
                 homeTeam |-> row["Home Team"], homePoints |-> homePoints.val,
                 attendance |-> row["Attendance"]])

\* lines 43-68: FixtureSet(month, str(year)) on the lines of the page,
\* get_dataframe, and the response built from the rows
Retrieve(month, year, lines) ==
    LET made == CreateHeadings(lines)
        filled == PopulateDataframe(lines, <<>>)
        rows == filled.df
    IN  IF made.err # "none" THEN ServerError(made.err)
        ELSE IF filled.err # "none" THEN ServerError(filled.err)
        ELSE IF \E k \in 1..Len(rows) : FixtureEntry(rows[k]).err # "none"
        THEN ServerError("ValueError")
        ELSE [status |-> 200,
              body |-> [month |-> month, year |-> year,
                        fixtureCount |-> Len(rows),
                        fixtures |-> [k \in 1..Len(rows) |->
                                         FixtureEntry(rows[k]).val]]]

RequestMonths ==
    {"October", "october", "MAY", "June", "July", "july", "SEPTEMBER",
     "Octobre", ""}

RequestYears == {MinYear - 1, MinYear, MinYear + 1, MaxYear, MaxYear + 1}

EmptyTable == << <<>> >>

\* what the schedule page of a request may hold: a header and data lines,
\* or a single empty line
Pages ==
    {<<StandardHeader>> \o body : body \in SeqsUpTo(LinePool, MaxPageLines)}
    \cup {EmptyTable}

InitApi ==
    /\ request \in [month : RequestMonths, year : RequestYears]
    /\ page \in Pages
    /\ response = NoResponse
    /\ constructed = <<>>
    /\ IdleFixture /\ IdleRow /\ IdleHead /\ IdleStats
    /\ IdleParse /\ IdleSeason /\ IdleScrape /\ IdleRequests

\* Fixtures.get
Get ==
    /\ response = NoResponse
    /\ LET month == Lower(request.month)
           year == request.year
           rejection == Validate(month, year)
       IN  IF rejection # ""
           THEN /\ response' = BadRequest(rejection)
                /\ constructed' = constructed
           ELSE /\ constructed' =
                      Append(constructed,
                             [month |-> month, year |-> ToString(year)])
                /\ response' = Retrieve(month, year, page)
    /\ UNCHANGED <<request, page, fixtureVars, rowVars, headVars, statVars,
                   parseVars, seasonVars, scrapeVars, requestVars>>

NextApi == Get

SpecApi == InitApi /\ [][NextApi]_vars

----------------------------------------------------------------------------
(* __create_row called repeatedly on one FixtureSet, on lines in any order *)

MaxParses == 3      \* __create_row calls on one FixtureSet

GoodLine ==
    Join(SynthTokens([away |-> <<"Boston", "Celtics">>,
                      home |-> <<"Utah", "Jazz">>,
                      noise |-> <<"Box", "Score">>,
                      venue |-> <<"Ball", "Arena">>]))

\* two good lines, the first of them again with a wider gap after its first
\* token, a line that gets the no-attendance layout and a line too short
ParseLines ==
    { GoodLine,
      InsertAt(GoodLine, 1, " "),
      Join(SynthTokens([away |-> <<"Los", "Angeles", "Lakers">>,
                        home |-> <<"Utah", "Jazz">>,
                        noise |-> <<"OT", "Box", "Score">>,
                        venue |-> <<"Ball", "Arena">>])),
      Join(PatternTokens(14, [NoOverride EXCEPT ![7] = "Lakers"])),
      Join(PatternTokens(11, NoOverride)) }

InitParse ==
    /\ parsed = <<>>
    /\ IdleFixture /\ IdleRow /\ IdleHead /\ IdleStats
    /\ IdleApi /\ IdleSeason /\ IdleScrape /\ IdleRequests

\* self.__create_row(fixture), the call and its outcome kept in order
CreateRowCall ==
    /\ Len(parsed) < MaxParses
    /\ \E fixture \in ParseLines :
          parsed' = Append(parsed, [fixture |-> fixture,
                                    result |-> CreateRow(fixture)])
    /\ UNCHANGED <<fixtureVars, rowVars, headVars, statVars, apiVars,
                   seasonVars, scrapeVars, requestVars>>

NextParse == CreateRowCall

SpecParse == InitParse /\ [][NextParse]_vars

----------------------------------------------------------------------------
(* SeasonStatistics.__init__: the season totals of a team and its          *)
(* opponents (src/data-retrieval/season_statistics.py and                  *)
(* src/season_statistics.py, which agree)                                  *)
(*                                                                         *)
(* Here a line is its text, a sequence of characters, and a token is a     *)
(* non-empty sequence of characters other than the blank.                  *)
(***************************************************************************)

MaxValues == 2      \* values after the label in a row of the totals table

\* str.split() on a text: word is the token being read
RECURSIVE SplitFrom(_, _)
SplitFrom(text, word) ==
    LET ended == IF word = <<>> THEN <<>> ELSE <<word>>
    IN  IF text = <<>> THEN ended
        ELSE IF Head(text) = " " THEN ended \o SplitFrom(Tail(text), <<>>)
        ELSE SplitFrom(Tail(text), Append(word, Head(text)))

SplitText(text) == SplitFrom(text, <<>>)

\* the tokens as the page prints them, gap blanks between two of them
RECURSIVE JoinText(_, _)
JoinText(tokens, gap) ==
    IF tokens = <<>> THEN <<>>
    ELSE IF Len(tokens) = 1 THEN tokens[1]
    ELSE tokens[1] \o [k \in 1..gap |-> " "] \o JoinText(Tail(tokens), gap)

\* faulty variant of FormatDecimals: a token with a "." anywhere is prefixed
FormatDecimalsAnywhere(stats) ==
    [k \in 1..Len(stats) |->
        IF \E c \in 1..Len(stats[k]) : stats[k][c] = "."
        THEN <<"0">> \o stats[k] ELSE stats[k]]

\* lines 122-129: "0" is put before the statistics whose first character
\* is "."
FormatDecimals(stats) ==
    [k \in 1..Len(stats) |->
        IF stats[k][1] = "." THEN <<"0">> \o stats[k] ELSE stats[k]]

\* lines 91-95 and 105-109: the row at a Python index, split, its first
\* token popped, its decimals formatted
CreateStatisticsRow(lines, index) ==
    IF Len(lines) <= index THEN Raise("IndexError")
    ELSE LET row == SplitText(At(lines, index))
         IN  IF row = <<>> THEN Raise("IndexError")
             ELSE Ok(FormatDecimals(Tail(row)))

\* lines 19-24: headings, team row, opponent row, in this order
CreateSeasonStatistics(lines) ==
    LET team == CreateStatisticsRow(lines, 1)
        opponent == CreateStatisticsRow(lines, 5)
    IN  IF lines = <<>> THEN Raise("IndexError")
        ELSE IF team.err # "none" THEN team
        ELSE IF opponent.err # "none" THEN opponent
        ELSE Ok([headings |-> SplitText(lines[1]),
                 team |-> team.val, opponent |-> opponent.val])

StatisticTokens ==
    { <<"8", "2">>, <<".", "4", "7">>, <<"0", ".", "4", "7">>,
      <<"3", "5", ".", "1">>, <<".">> }

ValueLists == SeqsUpTo(StatisticTokens, MaxValues)

SeasonHeader == JoinText(<<<<"G">>, <<"M", "P">>, <<"F", "G", "%">>>>, 1)

\* the rows between the team's totals and the opponents' totals
FillerRows ==
    << JoinText(<<<<"T", "/", "G">>, <<"1", ".", "0">>>>, 1),
       JoinText(<<<<"L", "g">>, <<"R", "a", "n", "k">>, <<"7">>>>, 1),
       JoinText(<<<<"Y", "/", "Y">>, <<".", "9", "%">>>>, 1) >>

\* a totals table: header, team row, three other rows, opponent row, one
\* row more; cut short to any number of lines in TableLengths
TableLengths == {1, 5, 6, 7}

SeasonTables ==
    { SubSeq(<<SeasonHeader,
               JoinText(<<<<"T", "e", "a", "m">>>> \o team, gap)>>
             \o FillerRows
             \o <<JoinText(<<<<"O", "p", "p">>>> \o opponent, 1),
                  JoinText(<<<<"R", "k">>, <<"3">>>>, 1)>>,
             1, n) :
        team \in ValueLists, opponent \in ValueLists, gap \in {1, 2},
        n \in TableLengths }
    \cup { <<SeasonHeader, <<>>, <<>>, <<>>, <<>>, <<>> >> }

InitSeason ==
    /\ statistics \in SeasonTables
    /\ seasonResult = Pending
    /\ IdleFixture /\ IdleRow /\ IdleHead /\ IdleStats
    /\ IdleApi /\ IdleParse /\ IdleScrape /\ IdleRequests

\* SeasonStatistics.__init__ once the lines are scraped
CreateStatistics ==
    /\ seasonResult = Pending
    /\ seasonResult' = CreateSeasonStatistics(statistics)
    /\ UNCHANGED <<statistics, fixtureVars, rowVars, headVars, statVars,
                   apiVars, parseVars, scrapeVars, requestVars>>

NextSeason == CreateStatistics

SpecSeason == InitSeason /\ [][NextSeason]_vars

----------------------------------------------------------------------------
(* The constructors of FixtureSet and SeasonStatistics, step by step:      *)
(* SeleniumScraper() starts a browser, scrape_fixtures / scrape_statistics *)
(* loads the page and reads the table, driver.quit() ends the browser, and *)
(* the rest of __init__ works on the lines.  Any of the first two may      *)
(* raise; an exception leaves the constructor at once.                     *)
(***************************************************************************)

\* the call that raises: none, webdriver.Chrome(...) in SeleniumScraper(),
\* driver.get(url), or driver.find_element(...)
Faults == {"none", "Chrome", "get", "find_element"}

SeasonSamples ==
    { SubSeq(<<SeasonHeader,
               JoinText(<<<<"T", "e", "a", "m">>, <<".", "4", "7">>>>, 1)>>
             \o FillerRows
             \o <<JoinText(<<<<"O", "p", "p">>, <<"8", "2">>>>, 1),
                  JoinText(<<<<"R", "k">>, <<"3">>>>, 1)>>,
             1, n) : n \in TableLengths }

\* the table the page of each class may hold
TablesOf(class) ==
    IF class = "FixtureSet" THEN Pages ELSE SeasonSamples

\* the work of __init__ after the scrape
ParseScraped(class, lines) ==
    IF class = "FixtureSet" THEN CreateHeadings(lines)
    ELSE CreateSeasonStatistics(lines)

InitConstruct ==
    /\ \E class \in {"FixtureSet", "SeasonStatistics"}, fault \in Faults :
          \E table \in TablesOf(class) :
              construction =
                  [class |-> class, fault |-> fault, table |-> table,
                   pc |-> "start", driver |-> "none", lines |-> <<>>,
                   parsedWith |-> "none", result |-> Pending]
    /\ IdleFixture /\ IdleRow /\ IdleHead /\ IdleStats
    /\ IdleApi /\ IdleParse /\ IdleSeason /\ IdleRequests

restOfConstruct ==
    <<fixtureVars, rowVars, headVars, statVars, apiVars, parseVars,
      seasonVars, requestVars>>

\* this_scraper = SeleniumScraper()
NewScraper ==
    /\ construction.pc = "start"
    /\ construction' =
          IF construction.fault = "Chrome"
          THEN [construction EXCEPT !.pc = "raised"]
          ELSE [construction EXCEPT !.pc = "acquired", !.driver = "open"]
    /\ UNCHANGED restOfConstruct

\* this_scraper.scrape_fixtures(url) / scrape_statistics(url)
ScrapeTable ==
    /\ construction.pc = "acquired"
    /\ construction' =
          IF construction.fault \in {"get", "find_element"}
          THEN [construction EXCEPT !.pc = "raised"]
          ELSE [construction EXCEPT !.pc = "scraped",
                                    !.lines = construction.table]
    /\ UNCHANGED restOfConstruct

\* this_scraper.driver.quit()
QuitDriver ==
    /\ construction.pc = "scraped"
    /\ construction' = [construction EXCEPT !.pc = "released",
                                            !.driver = "quit"]
    /\ UNCHANGED restOfConstruct

\* the lines are returned to __init__, which parses them
ParseReturned ==
    /\ construction.pc = "released"
    /\ LET made == ParseScraped(construction.class, construction.lines)
       IN  construction' =
               [construction EXCEPT
                    !.pc = IF made.err = "none" THEN "done" ELSE "raised",
                    !.parsedWith = construction.driver,
                    !.result = made]
    /\ UNCHANGED restOfConstruct

NextConstruct == NewScraper \/ ScrapeTable \/ QuitDriver \/ ParseReturned

SpecConstruct == InitConstruct /\ [][NextConstruct]_vars

----------------------------------------------------------------------------
(* Extraction requests served at the same time: each runs lines 43-44 of   *)
(* Fixtures.get on a FixtureSet of its own.  A request takes one step at a *)
(* time (the construction, the pop of the header, one turn of the loop of  *)
(* __populate_dataframe) and the steps of different requests interleave.   *)
(***************************************************************************)

MaxRequestLines == 2    \* data lines after the header of a request's page

Requesters == {1, 2}

RequestLinePool ==
    { GoodLine,
      Join(SynthTokens([away |-> <<"Los", "Angeles", "Lakers">>,
                        home |-> <<"Utah", "Jazz">>,
                        noise |-> <<"OT", "Box", "Score">>,
                        venue |-> <<"Ball", "Arena">>])),
      StandardHeader,
      Join(PatternTokens(11, NoOverride)) }

RequestPages ==
    { <<StandardHeader>> \o body :
        body \in SeqsUpTo(RequestLinePool, MaxRequestLines) }

\* lines 142-152: the two lists as a call of __format_fixtures builds them
FreshLookups == [three_names |-> three_names, last_words |-> last_words]

NoLookups == [three_names |-> {}, last_words |-> {}]

\* faulty variant of RowTarget: every request appends to the dataframe of
\* the first
RowTargetShared(r) == 1

\* line 263: self.__dataframe, the dataframe of the request's own FixtureSet
RowTarget(r) == r

InitRequests ==
    /\ \E tables \in [Requesters -> RequestPages] :
          requests =
              [r \in Requesters |->
                  [table |-> tables[r], pc |-> "new", fixtures |-> <<>>,
                   dataframe |-> <<>>, cursor |-> 0, outcome |-> "none",
                   lookups |-> NoLookups]]
    /\ IdleFixture /\ IdleRow /\ IdleHead /\ IdleStats
    /\ IdleApi /\ IdleParse /\ IdleSeason /\ IdleScrape

restOfRequests ==
    <<fixtureVars, rowVars, headVars, statVars, apiVars, parseVars,
      seasonVars, scrapeVars>>

\* FixtureSet(month, str(year)): the scrape and the headings
ConstructFixtureSet(r) ==
    /\ requests[r].pc = "new"
    /\ LET made == CreateHeadings(requests[r].table)
       IN  requests' =
               IF made.err # "none"
               THEN [requests EXCEPT ![r].pc = "raised",
                                     ![r].outcome = made.err]
               ELSE [requests EXCEPT ![r].pc = "constructed",
                                     ![r].fixtures = requests[r].table]
    /\ UNCHANGED restOfRequests

\* lines 258-259: data = self.__fixtures; data.pop(0)
PopHeader(r) ==
    /\ requests[r].pc = "constructed"
    /\ requests' =
          IF requests[r].fixtures = <<>>
          THEN [requests EXCEPT ![r].pc = "raised",
                                ![r].outcome = "IndexError"]
          ELSE [requests EXCEPT ![r].pc = "looping",
                                ![r].fixtures = Tail(requests[r].fixtures)]
    /\ UNCHANGED restOfRequests

\* lines 261-263: one turn of the loop, or its end
LoopTurn(r) ==
    /\ requests[r].pc = "looping"
    /\ LET me == requests[r]
           row == me.fixtures[me.cursor + 1]
           made == CreateRow(row)
       IN  requests' =
               IF me.cursor >= Len(me.fixtures)
               THEN [requests EXCEPT ![r].pc = "returned",
                                     ![r].outcome = "returned"]
               ELSE IF StartsWithDate(row)
               THEN [requests EXCEPT ![r].cursor = me.cursor + 1]
               ELSE IF made.err # "none"
               THEN [requests EXCEPT ![r].pc = "raised",
                                     ![r].outcome = made.err,
                                     ![r].lookups = FreshLookups]
               ELSE [requests EXCEPT
                        ![RowTarget(r)].dataframe = Append(@, made.val),
                        ![r].cursor = me.cursor + 1,
                        ![r].lookups = FreshLookups]
    /\ UNCHANGED restOfRequests

NextRequests ==
    \E r \in Requesters :
        ConstructFixtureSet(r) \/ PopHeader(r) \/ LoopTurn(r)

SpecRequests == InitRequests /\ [][NextRequests]_vars

----------------------------------------------------------------------------
(* Claims about the line parser *)

RowIs(away, apts, home, hpts, att) ==
    /\ rowResult.err = "none"
    /\ rowResult.val["Away Team"] = away
    /\ rowResult.val["Away PTS"] = apts
    /\ rowResult.val["Home Team"] = home
    /\ rowResult.val["Home PTS"] = hpts
    /\ rowResult.val["Attendance"] = att

\* C1: the record __create_row returns for a synthesised line (weekday, date,
\* time, away name, points, home name, points, noise, attendance, one to
\* three venue tokens) has exactly the names, points and attendance the line
\* was built from.
C1_RoundTrip ==
    (RowDone /\ built.kind = "synth") =>
        RowIs(built.away, built.apts, built.home, built.hpts, built.att)

\* C2 as stated: every 14-token list with a confirmer word at index 7 gets
\* the no-attendance layout (three-word away name, attendance "0").
C2_NoAttendanceAsStated ==
    (RowDone /\ Len(fixture_items) = 14 /\ At(fixture_items, 7) \in last_words) =>
        RowIs(Three(fixture_items, 5), At(fixture_items, 8),
              Two(fixture_items, 9), At(fixture_items, 11), "0")

\* C2 (amended): every 14-token list with a confirmer word at index 7 and no
\* confirmer word at index 11 gets Away Team = tokens 5,6,7, Away PTS =
\* token 8, Home Team = tokens 9,10, Home PTS = token 11, Attendance = "0".
C2_NoAttendance ==
    (/\ RowDone
     /\ Len(fixture_items) = 14
     /\ At(fixture_items, 7) \in last_words
     /\ At(fixture_items, 11) \notin last_words) =>
        RowIs(Three(fixture_items, 5), At(fixture_items, 8),
              Two(fixture_items, 9), At(fixture_items, 11), "0")

C2_Witness ==
    /\ RowDone
    /\ Len(fixture_items) = 14
    /\ At(fixture_items, 7) \in last_words
    /\ At(fixture_items, 11) \notin last_words
    /\ rowResult.err = "none"
    /\ rowResult.val["Attendance"] = "0"
    /\ rowResult.val["Away Team"] = "Los w6 Lakers"

\* C3: a filtered line whose token count is none of 14, 15, 16, 17 yields no
\* record: __format_fixtures raises instead of filling the fields from the
\* default positions.
C3_UnknownCountIsFatal ==
    (RowDone /\ Len(fixture_items) \notin {14, 15, 16, 17}) =>
        rowResult.err # "none"

BothThreeWords ==
    RowIs(Three(fixture_items, 5), At(fixture_items, 8),
          Three(fixture_items, 9), At(fixture_items, 12),
          At(fixture_items, 13))

\* C13 as stated: every 16- or 17-token list gets three-word names for both
\* teams, whatever its tokens are.
C13_BothThreeAsStated ==
    (RowDone /\ Len(fixture_items) \in {16, 17}) => BothThreeWords

\* C13 (amended): every 17-token list gets Away Team = tokens 5,6,7, Away
\* PTS = token 8, Home Team = tokens 9,10,11, Home PTS = token 12 and
\* Attendance = token 13, whatever its tokens are; a 16-token list gets
\* that layout exactly when tokens 5 and 9 are both starter words.
C13_BothThree ==
    /\ (RowDone /\ Len(fixture_items) = 17) => BothThreeWords
    /\ (RowDone /\ Len(fixture_items) = 16) =>
          (BothThreeWords <=> (/\ At(fixture_items, 5) \in three_names
                               /\ At(fixture_items, 9) \in three_names))

\* 17 tokens, none of them a starter or a confirmer word
C13_Witness ==
    /\ RowDone
    /\ Len(fixture_items) = 17
    /\ \A k \in 1..17 : fixture_items[k] \notin three_names \cup last_words
    /\ BothThreeWords
    /\ rowResult.val["Home Team"] = "w9 w10 w11"

AwayIsThreeWords ==
    /\ rowResult.val["Away Team"] = Three(fixture_items, 5)
    /\ rowResult.val["Away PTS"] = At(fixture_items, 8)

AwayIsTwoWords ==
    /\ rowResult.val["Away Team"] = Two(fixture_items, 5)
    /\ rowResult.val["Away PTS"] = At(fixture_items, 7)

\* C14: for every 15- or 16-token list the away name is three words exactly
\* when token 5 is a starter word (and two words otherwise); when token 5
\* is no starter word, the home name is tokens 8,9,10 if token 8 is a
\* starter word and tokens 8,9 if it is not.
C14_ContentTested ==
    (RowDone /\ Len(fixture_items) \in {15, 16}) =>
        /\ rowResult.err = "none"
        /\ AwayIsThreeWords <=> At(fixture_items, 5) \in three_names
        /\ AwayIsTwoWords <=> At(fixture_items, 5) \notin three_names
        /\ At(fixture_items, 5) \notin three_names =>
              IF At(fixture_items, 8) \in three_names
              THEN /\ rowResult.val["Home Team"] = Three(fixture_items, 8)
                   /\ rowResult.val["Home PTS"] = At(fixture_items, 11)
              ELSE /\ rowResult.val["Home Team"] = Two(fixture_items, 8)
                   /\ rowResult.val["Home PTS"] = At(fixture_items, 10)

\* a list that no branch after the first dictionary selects
SelectedByNoRule ==
    /\ Len(fixture_items) >= 12
    /\ Len(fixture_items) \notin {16, 17}
    /\ Len(fixture_items) = 14 => At(fixture_items, 7) \notin last_words
    /\ Len(fixture_items) = 15 =>
          /\ At(fixture_items, 5) \notin three_names
          /\ At(fixture_items, 8) \notin three_names

\* C15: every list of at least 12 tokens that no other rule selects (among
\* them 14 tokens with no confirmer word at index 7, and 15 tokens with no
\* starter word at index 5 or 8) gets the default layout: Away Team =
\* tokens 5,6, Away PTS = token 7, Home Team = tokens 8,9, Home PTS = token
\* 10, Attendance = token 11.
C15_DefaultLayout ==
    (RowDone /\ SelectedByNoRule) =>
        RowIs(Two(fixture_items, 5), At(fixture_items, 7),
              Two(fixture_items, 8), At(fixture_items, 10),
              At(fixture_items, 11))

\* a 14-token line built from two two-word names and a two-word venue
C15_Witness ==
    /\ RowDone
    /\ SelectedByNoRule
    /\ Len(fixture_items) = 14
    /\ built.kind = "synth"
    /\ RowIs("Boston Celtics", "107", "Utah Jazz", "119", "19842")

\* the n tokens from index i, joined by single spaces
NameAt(it, i, n) == IF n = 2 THEN Two(it, i) ELSE Three(it, i)

\* the record's names and points lie as: away name of a words from index
\* 5, away points, home name of h words, home points
SpansAre(a, h) ==
    /\ rowResult.val["Away Team"] = NameAt(fixture_items, 5, a)
    /\ rowResult.val["Away PTS"] = At(fixture_items, 5 + a)
    /\ rowResult.val["Home Team"] = NameAt(fixture_items, 5 + a + 1, h)
    /\ rowResult.val["Home PTS"] = At(fixture_items, 5 + a + 1 + h)

\* C16: in every record returned, Away PTS is the token right after the
\* last token of the Away Team span, the Home Team span starts right after
\* Away PTS, and Home PTS is the token right after the last token of the
\* Home Team span.
C16_PointsFollowNames ==
    (RowDone /\ rowResult.err = "none") =>
        \E a \in {2, 3}, h \in {2, 3} : SpansAre(a, h)

\* 14 tokens with confirmer words at indices 7 and 11: two three-word names
C16_Witness ==
    /\ RowDone
    /\ Len(fixture_items) = 14
    /\ At(fixture_items, 7) \in last_words
    /\ At(fixture_items, 11) \in last_words
    /\ rowResult.err = "none"
    /\ SpansAre(3, 3)
    /\ rowResult.val["Home PTS"] = "w12"

\* the layouts the branches of __format_fixtures assign: words of the away
\* name, words of the home name, index of the attendance token (none when
\* the attendance is the sentinel "0")
Layouts ==
    { [away |-> 2, home |-> 2, sentinel |-> FALSE, att |-> 11],
      [away |-> 3, home |-> 2, sentinel |-> TRUE, att |-> 11],
      [away |-> 3, home |-> 3, sentinel |-> FALSE, att |-> 13],
      [away |-> 3, home |-> 2, sentinel |-> FALSE, att |-> 12],
      [away |-> 2, home |-> 3, sentinel |-> FALSE, att |-> 12] }

HasLayout(layout) ==
    /\ SpansAre(layout.away, layout.home)
    /\ rowResult.val["Attendance"] =
          IF layout.sentinel THEN "0" ELSE At(fixture_items, layout.att)

\* C17: every record returned has one of a fixed set of five layouts (so
\* between five and seven), and in each of them Date is tokens 1,2,3 and
\* Tip-Off Time is token 4.
C17_ClosedLayouts ==
    /\ Cardinality(Layouts) \in 5..7
    /\ (RowDone /\ rowResult.err = "none") =>
          /\ \E layout \in Layouts : HasLayout(layout)
          /\ rowResult.val["Date"] = Three(fixture_items, 1)
          /\ rowResult.val["Tip-Off Time"] = At(fixture_items, 4)

\* 15 tokens with a starter word at index 5: three-word away name, two-word
\* home name, attendance at index 12
C17_Witness ==
    /\ RowDone
    /\ Len(fixture_items) = 15
    /\ At(fixture_items, 5) \in three_names
    /\ rowResult.err = "none"
    /\ HasLayout([away |-> 3, home |-> 2, sentinel |-> FALSE, att |-> 12])
    /\ \A layout \in Layouts :
          HasLayout(layout) => (layout.away = 3 /\ layout.home = 2)
    /\ rowResult.val["Date"] = "Oct 24 2023"
    /\ rowResult.val["Tip-Off Time"] = "7:30p"

\* the whitespace-separated tokens of the raw line
RawTokens == SelectSeq(rawLine, LAMBDA item : item # " ")

IsNoise(token) ==
    \/ token = "OT" \/ token = "2OT" \/ token = "3OT" \/ token = "4OT"
    \/ token = "(IV)" \/ token = "Box" \/ token = "Score"

\* the indices of the raw tokens that are no noise token
KeptIndices == {k \in 1..Len(RawTokens) : ~IsNoise(RawTokens[k])}

\* the i-th smallest kept index
KeptIndex(i) ==
    CHOOSE k \in KeptIndices : Cardinality({j \in KeptIndices : j < k}) = i - 1

\* C18: the list __create_row hands to __format_fixtures is the whitespace
\* split of the line without any of the seven noise tokens, wherever they
\* stand, and with every other token kept once, in the original order.
C18_Filtered ==
    RowDone =>
        /\ Len(fixture_items) = Cardinality(KeptIndices)
        /\ \A i \in 1..Len(fixture_items) :
              fixture_items[i] = RawTokens[KeptIndex(i)]
        /\ \A i \in 1..Len(fixture_items) : ~IsNoise(fixture_items[i])

\* a line with "(IV)" as its first token and again further on, and with
\* tokens on both sides of the second one
C18_Witness ==
    /\ RowDone
    /\ Len(RawTokens) = 16
    /\ RawTokens[1] = "(IV)"
    /\ \E k \in 5..12 : RawTokens[k] = "(IV)"
    /\ Len(fixture_items) = 14
    /\ fixture_items = PatternTokens(14, NoOverride)

----------------------------------------------------------------------------
(* Claims about get_dataframe *)

\* the rows of the lines that do not start with "Date", in line order
RowsOf(lines) ==
    LET kept == SelectSeq(lines, LAMBDA row : ~StartsWithDate(row))
    IN  [k \in 1..Len(kept) |-> CreateRow(kept[k]).val]

IsShort(row) == ~StartsWithDate(row) /\ Len(FilterRow(Split(row))) < 12

\* indices of the parsed lines with fewer than 12 filtered tokens, among
\* the lines the last call looped over
ShortLines ==
    IF before.fixtures = <<>> THEN {}
    ELSE {i \in 1..(Len(before.fixtures) - 1) :
             IsShort(Tail(before.fixtures)[i])}

FirstShort == CHOOSE i \in ShortLines : \A j \in ShortLines : i <= j

\* C4: a line with fewer than 12 filtered tokens makes __format_fixtures
\* raise IndexError; the get_dataframe call that reaches it ends with that
\* error, having appended the rows of the lines before it and no row for it
\* or for any later line.
C4_ShortLineRaises ==
    (calls >= 1 /\ ShortLines # {}) =>
        /\ outcome = "IndexError"
        /\ dataframe = before.dataframe
              \o RowsOf(SubSeq(Tail(before.fixtures), 1, FirstShort - 1))

C4_Witness ==
    /\ calls = 1
    /\ ShortLines # {}
    /\ FirstShort = 2
    /\ Len(before.fixtures) = 4
    /\ ~StartsWithDate(before.fixtures[4])
    /\ ~IsShort(before.fixtures[4])
    /\ outcome = "IndexError"
    /\ Len(dataframe) = 1

\* C6: when the first get_dataframe call returns, the dataframe holds one
\* row per line after the header whose first four characters are not
\* "Date", each the parse of its line, in the order of the lines.
C6_FirstCallRows ==
    (calls = 1 /\ outcome = "returned") =>
        dataframe = RowsOf(Tail(before.fixtures))

C6_Witness ==
    /\ calls = 1
    /\ outcome = "returned"
    /\ Len(before.fixtures) = 4
    /\ StartsWithDate(before.fixtures[3])
    /\ Len(dataframe) = 2
    /\ dataframe[1] # dataframe[2]

\* C23: get_dataframe is idempotent: when the first call returns, the
\* dataframe holds one record per data line that does not start with
\* "Date"; when a later call returns, it has left the lines and the
\* dataframe as it found them, so that no line is lost and no record is
\* there twice.
C23_Idempotent ==
    (calls >= 1 /\ outcome = "returned") =>
        IF calls = 1
        THEN dataframe = RowsOf(Tail(before.fixtures))
        ELSE /\ dataframe = before.dataframe
             /\ fixtures = before.fixtures

----------------------------------------------------------------------------
(* Claims about the heading normaliser *)

CanonicalHeadings ==
    <<"Date", "Tip-Off Time", "Away Team", "Away PTS", "Home Team",
      "Home PTS", "Attendance">>

\* the header's tokens without "(ET)", "Notes" and "Arena"
Condensed ==
    SelectSeq(Split(headerLine),
              LAMBDA t : t # "(ET)" /\ t # "Notes" /\ t # "Arena")

\* the six source headings stand at indices 1 to 6
SixInPlace ==
    /\ Len(Condensed) >= 7
    /\ \A i \in 1..6 : At(Condensed, i) = At(SourceHeadings, i)

HeadDone == headResult # Pending

\* C5 as stated: a header with the six source headings at indices 1 to 6
\* (noise headings dropped) yields exactly the seven canonical headings.
C5_HeadingsAsStated ==
    (HeadDone /\ SixInPlace) => headResult = Ok(CanonicalHeadings)

\* C5 (amended): for a header with the six source headings at indices 1 to
\* 6 (noise headings dropped), the result has the six canonical names at
\* indices 1 to 6, every other kept token unchanged at its index, and no
\* noise heading; it is exactly the seven canonical headings when the
\* header's first token is "Date" and nothing follows index 6.
C5_Headings ==
    (HeadDone /\ SixInPlace) =>
        /\ headResult.err = "none"
        /\ Len(headResult.val) = Len(Condensed)
        /\ \A i \in 1..6 : At(headResult.val, i) = At(CanonicalHeadings, i)
        /\ \A i \in {0} \cup (7..(Len(Condensed) - 1)) :
              At(headResult.val, i) = At(Condensed, i)
        /\ \A k \in 1..Len(headResult.val) :
              headResult.val[k] \notin {"(ET)", "Notes", "Arena"}
        /\ (At(Condensed, 0) = "Date" /\ Len(Condensed) = 7) =>
              headResult = Ok(CanonicalHeadings)

C5_Witness ==
    /\ HeadDone
    /\ SixInPlace
    /\ Len(Split(headerLine)) = 10
    /\ At(Split(headerLine), 2) = "(ET)"
    /\ headResult = Ok(CanonicalHeadings)

----------------------------------------------------------------------------
(* Claims about the calculator *)

TurnoverDenominator ==
    100 * team_statistics.FGA + 44 * team_statistics.FTA
        + 100 * team_statistics.TOV

TrueShootingAttempts == 1000 * team_statistics.FGA + 440 * team_statistics.FTA

PossessionsAreZero ==
    \/ (CalculatePossessions.err = "none" /\ CalculatePossessions.val = 0)
    \/ (CalculateOpponentPossessions.err = "none"
           /\ CalculateOpponentPossessions.val = 0)

\* the denominators of the calculator, one disjunct each
SomeDenominatorIsZero ==
    \/ team_statistics.G = 0
    \/ team_statistics.FG = 0
    \/ team_statistics.TOV = 0
    \/ team_statistics.DRB + opponent_statistics.ORB = 0
    \/ team_statistics.ORB + opponent_statistics.DRB = 0
    \/ team_statistics.TRB + opponent_statistics.TRB = 0
    \/ TurnoverDenominator = 0
    \/ team_statistics.FGA = 0
    \/ 2 * TrueShootingAttempts = 0
    \/ PossessionsAreZero
    \/ team_statistics.MP = 0
    \/ ImpactTerm(team_statistics) + ImpactTerm(opponent_statistics) = 0

\* C7: when any denominator of the calculator is zero, every call of
\* get_advanced_statistics_dataframe raises ZeroDivisionError and no record
\* is appended: no metric stands in the dataframe as zero or infinity.
C7_ZeroDenominatorIsFatal ==
    (advCalls >= 1 /\ SomeDenominatorIsZero) =>
        /\ advOutcome = "ZeroDivisionError"
        /\ advanced_statistics_dataframe = <<>>

\* only the combined Team Impact Estimate term is zero
C7_Witness ==
    /\ advCalls >= 1
    /\ ImpactTerm(team_statistics) + ImpactTerm(opponent_statistics) = 0
    /\ \A h \in HeadingSet \ {"TIE"} : Metric(h).err = "none"
    /\ advOutcome = "ZeroDivisionError"
    /\ advanced_statistics_dataframe = <<>>

MetricsDone == metricResults # <<>>

MetricRaises(h) == metricResults[h].err = "ZeroDivisionError"

\* C8 as stated: Turnover% raises whenever turnovers are zero,
\* Assist/Turnover whenever turnovers are zero, True-Shooting% whenever
\* true-shooting attempts or field-goal attempts are zero.
C8_RaisesAsStated ==
    MetricsDone =>
        /\ (team_statistics.TOV = 0 => MetricRaises("TOV%"))
        /\ (team_statistics.TOV = 0 => MetricRaises("AST/TOV"))
        /\ ((TrueShootingAttempts = 0 \/ team_statistics.FGA = 0)
               => MetricRaises("TS%"))

\* C8 (amended): Turnover% raises exactly when FGA + 0.44 * FTA + TOV is
\* zero and is 0.0 when only the turnovers are zero; Assist/Turnover raises
\* exactly when turnovers are zero; True-Shooting% raises exactly when the
\* true-shooting attempts are zero, not when only FGA is zero.
C8_Raises ==
    MetricsDone =>
        /\ (MetricRaises("TOV%") <=> TurnoverDenominator = 0)
        /\ ((team_statistics.TOV = 0 /\ TurnoverDenominator # 0)
               => metricResults["TOV%"] = Ok(0))
        /\ (MetricRaises("AST/TOV") <=> team_statistics.TOV = 0)
        /\ (MetricRaises("TS%") <=> TrueShootingAttempts = 0)

C8_Witness ==
    /\ MetricsDone
    /\ team_statistics.TOV = 0 /\ team_statistics.FGA > 0
    /\ metricResults["TOV%"] = Ok(0)
    /\ MetricRaises("AST/TOV")

C8_WitnessTrueShooting ==
    /\ MetricsDone
    /\ team_statistics.FGA = 0 /\ team_statistics.FTA > 0
    /\ team_statistics.PTS > 0
    /\ metricResults["TS%"].err = "none"
    /\ metricResults["TS%"].val > 0

\* C9: the published Net Rating is the published (rounded) Offensive Rating
\* minus the published Defensive Rating.
C9_NetRatingOfRounded ==
    \A k \in 1..Len(advanced_statistics_dataframe) :
        LET row == advanced_statistics_dataframe[k]
        IN  row["NRtg"] = row["ORtg"] - row["DRtg"]

\* a record whose Net Rating differs from the rounded difference of the
\* unrounded ratings
C9_Witness ==
    /\ Len(advanced_statistics_dataframe) = 1
    /\ CalculatePossessions.val = CalculateOpponentPossessions.val
    /\ advanced_statistics_dataframe[1]["NRtg"] #
          RoundDiv((team_statistics.PTS - opponent_statistics.PTS) * 100000000,
                   CalculatePossessions.val)

Abs(n) == IF n < 0 THEN -n ELSE n

\* 2000 * A * B times the stated estimate 0.5 * [(FGA + 0.4 * FTA - 1.07 *
\* (ORB / A) * (FGA - FG) + TOV) + (OppFGA + 0.4 * OppFTA - 1.07 *
\* (OppORB / B) * (OppFGA - OppFG) + OppTOV)], with A = ORB + OppDRB and
\* B = OppORB + DRB
StatedPossessionsScaled ==
    LET t == team_statistics
        o == opponent_statistics
        A == t.ORB + o.DRB
        B == o.ORB + t.DRB
    IN  1000 * A * B * (t.FGA + t.TOV + o.FGA + o.TOV)
        + 400 * A * B * (t.FTA + o.FTA)
        - 1070 * B * t.ORB * (t.FGA - t.FG)
        - 1070 * A * o.ORB * (o.FGA - o.FG)

\* thousandths is the stated estimate rounded to three decimal places
IsStatedPossessions(thousandths) ==
    LET AB == (team_statistics.ORB + opponent_statistics.DRB)
                * (opponent_statistics.ORB + team_statistics.DRB)
    IN  Abs(StatedPossessionsScaled - 2 * thousandths * AB) <= AB

\* thousandths is n / d rounded to three decimal places, n given times 1000
IsRounded(thousandths, n, d) == 2 * Abs(thousandths * d - n) <= Abs(d)

\* C20: with both rebound denominators non-zero, each of the two possession
\* estimates is the stated expression rounded to three decimal places; and
\* Offensive Rating, Defensive Rating and Pace are 100 * PTS / possessions,
\* 100 * OppPTS / opponent possessions and 48 * (sum of the two) / (2 *
\* (MP / 5)), each rounded, of the rounded estimates.
C20_Possessions ==
    (/\ MetricsDone
     /\ team_statistics.ORB + opponent_statistics.DRB # 0
     /\ opponent_statistics.ORB + team_statistics.DRB # 0) =>
        LET p == metricResults["possessions"]
            op == metricResults["opponent_possessions"]
            ortg == metricResults["ORtg"]
            drtg == metricResults["DRtg"]
            pace == metricResults["Pace"]
        IN  /\ p.err = "none" /\ IsStatedPossessions(p.val)
            /\ op.err = "none" /\ IsStatedPossessions(op.val)
            /\ (ortg.err = "none") <=> (p.val # 0)
            /\ ortg.err = "none" =>
                  IsRounded(ortg.val, team_statistics.PTS * 100000000, p.val)
            /\ (drtg.err = "none") <=> (op.val # 0)
            /\ drtg.err = "none" =>
                  IsRounded(drtg.val, opponent_statistics.PTS * 100000000,
                            op.val)
            /\ (pace.err = "none") <=> (team_statistics.MP # 0)
            /\ pace.err = "none" =>
                  IsRounded(pace.val, 120 * (p.val + op.val),
                            team_statistics.MP)

\* the two rebound denominators differ, the rebound terms are not zero, and
\* the Offensive Rating of the rounded estimate is not that of the
\* unrounded one
C20_Witness ==
    /\ MetricsDone
    /\ team_statistics.ORB + opponent_statistics.DRB = 2
    /\ opponent_statistics.ORB + team_statistics.DRB = 1
    /\ team_statistics.FGA # team_statistics.FG
    /\ team_statistics.PTS = 1
    /\ metricResults["possessions"].err = "none"
    /\ metricResults["possessions"].val > 0
    /\ metricResults["ORtg"].err = "none"
    /\ metricResults["Pace"].err = "none"
    /\ ~IsRounded(metricResults["ORtg"].val, 400000000,
                  StatedPossessionsScaled)

\* the two estimates are one value, so the two ratings are defined together
\* and over the same denominator, and Pace, where the minutes are not zero,
\* is 48 * possessions / (MP / 5) rounded
OneEstimate ==
    LET p == metricResults["possessions"]
        op == metricResults["opponent_possessions"]
        pace == metricResults["Pace"]
    IN  /\ p.err = "none" /\ op.err = "none"
        /\ p.val = op.val
        /\ (metricResults["ORtg"].err = "none")
              <=> (metricResults["DRtg"].err = "none")
        /\ pace.err = "none" =>
              IsRounded(pace.val, 240 * p.val, team_statistics.MP)

Rebound_Denominators ==
    /\ team_statistics.ORB + opponent_statistics.DRB # 0
    /\ opponent_statistics.ORB + team_statistics.DRB # 0

\* C24 as stated: with both rebound denominators non-zero, the two estimates
\* are one value and Net Rating, where it is defined, is not negative
\* whenever the team's points are at least the opponents'.
C24_NetRatingAsStated ==
    (MetricsDone /\ Rebound_Denominators) =>
        /\ OneEstimate
        /\ (/\ team_statistics.PTS >= opponent_statistics.PTS
            /\ metricResults["NRtg"].err = "none") =>
               metricResults["NRtg"].val >= 0

\* C24: with both rebound denominators non-zero, the team's and the
\* opponents' estimated possessions are the same value, the two ratings are
\* over that one denominator, and Pace is 48 * possessions / (MP / 5); where
\* Net Rating is defined and the team's points are at least the opponents',
\* Net Rating is not negative if the estimate is positive and not positive
\* if the estimate is negative.
C24_NetRating ==
    (MetricsDone /\ Rebound_Denominators) =>
        /\ OneEstimate
        /\ (/\ team_statistics.PTS >= opponent_statistics.PTS
            /\ metricResults["NRtg"].err = "none") =>
               IF metricResults["possessions"].val > 0
               THEN metricResults["NRtg"].val >= 0
               ELSE metricResults["NRtg"].val <= 0

\* more points than the opponents over a positive estimate, every metric of
\* the claim defined, and a positive Net Rating
C24_Witness ==
    /\ MetricsDone
    /\ Rebound_Denominators
    /\ team_statistics.PTS > opponent_statistics.PTS
    /\ opponent_statistics.PTS > 0
    /\ metricResults["possessions"].err = "none"
    /\ metricResults["possessions"].val > 0
    /\ metricResults["possessions"].val
          = metricResults["opponent_possessions"].val
    /\ metricResults["Pace"].err = "none"
    /\ metricResults["NRtg"].err = "none"
    /\ metricResults["NRtg"].val > 0

\* more points than the opponents over a negative estimate: Net Rating is
\* negative
NegativeEstimate ==
    /\ MetricsDone
    /\ Rebound_Denominators
    /\ team_statistics.PTS > opponent_statistics.PTS
    /\ metricResults["possessions"].err = "none"
    /\ metricResults["possessions"].val < 0
    /\ metricResults["NRtg"].err = "none"
    /\ metricResults["NRtg"].val < 0

\* C10: after any number of calls that return, the dataframe holds exactly
\* one record, and that record has exactly the 20 metrics.
C10_OneRecord ==
    (advCalls >= 1 /\ advOutcome = "returned") =>
        /\ Len(advanced_statistics_dataframe) = 1
        /\ DOMAIN advanced_statistics_dataframe[1] = HeadingSet
        /\ Cardinality(HeadingSet) = 20

----------------------------------------------------------------------------
(* Claims about the fixtures endpoint *)

ApiDone == response.status # 0

MonthRejected == Lower(request.month) \notin accepted_months

YearRejected == request.year < MinYear \/ request.year > MaxYear

\* C11: when the lower-cased month is not one of the nine accepted months,
\* or the year is below 2014 or above 2023, Fixtures.get answers 400 and no
\* FixtureSet has been constructed; the month is checked first, so a request
\* with both wrong is answered with the month's message.
C11_Rejected ==
    (ApiDone /\ (MonthRejected \/ YearRejected)) =>
        /\ response.status = 400
        /\ constructed = <<>>
        /\ response.body.message =
              IF MonthRejected THEN "Invalid month selection."
              ELSE "Invalid year selection."

\* an upper-case spelling of a month outside the season, and a year too late
C11_Witness ==
    /\ ApiDone
    /\ request.month = "SEPTEMBER"
    /\ request.year = MaxYear + 1
    /\ response = BadRequest("Invalid month selection.")
    /\ constructed = <<>>
    /\ Len(page) > 1

----------------------------------------------------------------------------
(* Claims about the season totals *)

SeasonDone == seasonResult # Pending

\* the tokens of the line at a Python index, without the first
ValuesOfLine(index) == Tail(SplitText(At(statistics, index)))

\* formatted is raw with "0" put before exactly the tokens that start with
\* ".", every other token unchanged, length and order kept
DecimalsFormatted(raw, formatted) ==
    /\ Len(formatted) = Len(raw)
    /\ \A k \in 1..Len(raw) :
          /\ raw[k][1] = "." => formatted[k] = <<"0">> \o raw[k]
          /\ raw[k][1] # "." => formatted[k] = raw[k]

\* C19: the team's totals are the tokens of line index 1 and the
\* opponents' totals the tokens of line index 5, each without its first
\* (label) token and with "0" put before exactly the tokens that start
\* with "."; formatting the result again changes nothing.
C19_Totals ==
    (SeasonDone /\ seasonResult.err = "none") =>
        /\ DecimalsFormatted(ValuesOfLine(1), seasonResult.val.team)
        /\ DecimalsFormatted(ValuesOfLine(5), seasonResult.val.opponent)
        /\ FormatDecimals(seasonResult.val.team) = seasonResult.val.team
        /\ FormatDecimals(seasonResult.val.opponent)
              = seasonResult.val.opponent

\* a team row with a leading-dot decimal and a decimal with a digit before
\* the dot, wide gaps between its tokens, and an opponent row that
\* differs from it
C19_Witness ==
    /\ SeasonDone
    /\ seasonResult.err = "none"
    /\ Len(statistics) = 7
    /\ statistics[2] = JoinText(<<<<"T", "e", "a", "m">>, <<".", "4", "7">>,
                                  <<"3", "5", ".", "1">>>>, 2)
    /\ seasonResult.val.team = <<<<"0", ".", "4", "7">>, <<"3", "5", ".", "1">>>>
    /\ seasonResult.val.opponent = <<<<"0", ".">>>>

----------------------------------------------------------------------------
(* Claims about the constructors *)

ConstructEnded == construction.pc \in {"done", "raised"}

\* C21: whenever a constructor has ended, by returning or by an exception
\* of any step, the browser it started has been quit; and the lines were
\* parsed only after the browser was quit.
C21_Released ==
    /\ ConstructEnded => construction.driver # "open"
    /\ construction.result # Pending => construction.parsedWith = "quit"

----------------------------------------------------------------------------
(* Claims about requests served at the same time *)

\* what a request gets when it runs alone, from construction to return
RunAlone(table) ==
    IF CreateHeadings(table).err # "none"
    THEN [err |-> CreateHeadings(table).err, fixtures |-> <<>>, df |-> <<>>]
    ELSE PopulateDataframe(table, <<>>)

RequestEnded(r) == requests[r].pc \in {"returned", "raised"}

\* C22: under every interleaving of the steps of two requests, a request
\* that has ended holds exactly the records, and ended in exactly the way,
\* it would have had running alone, and stays so while the other request
\* goes on; and the lookup lists of every call are the fixed three_names
\* and last_words.
C22_Isolated ==
    \A r \in Requesters :
        /\ RequestEnded(r) =>
              LET alone == RunAlone(requests[r].table)
              IN  /\ requests[r].dataframe = alone.df
                  /\ requests[r].outcome =
                        IF alone.err = "none" THEN "returned" ELSE alone.err
        /\ requests[r].lookups \in {NoLookups, FreshLookups}

\* the first request has returned two records while the second, on another
\* page, is in the middle of its loop with one record
C22_Witness ==
    /\ requests[1].pc = "returned"
    /\ Len(requests[1].dataframe) = 2
    /\ requests[2].pc = "looping"
    /\ requests[2].cursor = 1
    /\ Len(requests[2].dataframe) = 1
    /\ requests[2].table # requests[1].table
    /\ requests[2].dataframe[1] # requests[1].dataframe[1]
    /\ requests[1].lookups = FreshLookups

====
